---- MODULE Spec2Model ----
(***************************************************************************)
(* Model of smart-commit's change-driven deployment: the two CLI entry     *)
(* points (deploy, deploy-smart), ServerCommandExecutor (validation and    *)
(* sequential execution over one ssh2 session) and ProjectAnalyzer's       *)
(* change classifier and smart command planner.                            *)
(***************************************************************************)
EXTENDS Integers, Sequences, FiniteSets, TLC

\* ---------------------------------------------------------------- bounds
\* at most this many configured commands in a full-deploy configuration
MaxCmds == 3
\* at most this many commands in one configured category
MaxPerCat == 2
\* at most this many changed paths in the last commit (smart deploy)
MaxFiles == 1
\* at most this many faults of the environment in one run: a command that
\* does anything but exit 0 silently, an unreadable key file, a connection
\* that fails or is lost
MaxFaults == 1
\* changed paths of a commit handed to the classifier on its own
MaxChanged == 2
MaxStr == 3

\* ---------------------------------------------------------- plain values
\* JavaScript's undefined (an absent optional field, a missing exit code)
Undefined == "undefined"

\* a stream that closes without an exit code (close(undefined) or close(null))
NoExitCode == -1

\* ServerCommandsConfig.server when the block is absent
NoServer == [present |-> FALSE]

\* the categories of ServerCommandsConfig.commands, in the order in which
\* executeCommands collects them
Categories == <<"git", "frontend", "backend", "database", "docker", "system">>

\* commands are word sequences, so that a prefix can be tested
NpmInstall == <<"npm", "install">>
RmRf == <<"rm", "-rf", "/">>
ConfiguredCommands == {NpmInstall, RmRf}

\* what a remote process can exit with
ExitCodes == {0, 1, NoExitCode}
\* what the stream handlers can have accumulated when the stream closes
RawOutputs == {"", "ok\n"}
RawErrors == {"", "boom\n"}

\* String.prototype.trim on the strings of the model
Trim(s) ==
  CASE s = "ok\n" -> "ok"
    [] s = "boom\n" -> "boom"
    [] OTHER -> s

\* p is a prefix of the word sequence s
IsPrefix(p, s) ==
  /\ Len(p) <= Len(s)
  /\ \A k \in 1..Len(p) : p[k] = s[k]

\* the sequences over S of length at most n
SeqsUpTo(S, n) == UNION {[1..k -> S] : k \in 0..n}

\* ------------------------------------------- ProjectAnalyzer (classifier)
\* paths are token sequences, so that String.includes can be tested
ChangedPaths ==
  { <<"composer.json">>,
    <<"package.json">>,
    <<"config", "/", "app.php">>,
    <<"app", "/", "Providers", "/", "Auth.php">>,
    <<"database", "/", "migrations", "/", "m.php">>,
    <<"resources", "/", "js", "/", "app.js">>,
    <<"src", "/", "index.js">>,
    <<"nginx.conf">>,
    <<"README.md">> }

\* String.prototype.toLowerCase on one token
LowerToken(t) ==
  CASE t = "Providers" -> "providers"
    [] t = "Auth.php" -> "auth.php"
    [] t = "README.md" -> "readme.md"
    [] t = "Improved" -> "improved"
    [] t = "A" -> "a"
    [] OTHER -> t

toLowerCase(path) == [k \in 1..Len(path) |-> LowerToken(path[k])]

\* String.prototype.includes: pat occurs contiguously in path
includes(path, pat) ==
  \E off \in 0..(Len(path) - Len(pat)) :
    \A k \in 1..Len(pat) : path[off + k] = pat[k]

\* what analyzeProject can report about the project
ProjectInfos ==
  { [type |-> "php", framework |-> "laravel"],
    [type |-> "php", framework |-> Undefined],
    [type |-> "nodejs", framework |-> Undefined],
    [type |-> "unknown", framework |-> Undefined] }

\* the project type a caller may pass to analyzeChangesForSmartDeploy
ProjectTypeHints == {Undefined, "unknown", "php", "nodejs"}

InitialAnalysis ==
  [ needsGitPull |-> TRUE,
    needsComposerInstall |-> FALSE,
    needsComposerUpdate |-> FALSE,
    needsNpmInstall |-> FALSE,
    needsNpmBuild |-> FALSE,
    needsLaravelOptimize |-> FALSE,
    needsLaravelMigrate |-> FALSE,
    needsSystemRestart |-> FALSE,
    reasons |-> <<>> ]

\* the project type the loop works with
ActualProjectType(hint, info) ==
  IF hint # Undefined /\ hint # "unknown" THEN hint ELSE info.type

\* the framework the loop works with: only set when the project is analyzed
ProjectFramework(hint, info) ==
  IF hint # Undefined /\ hint # "unknown" THEN Undefined ELSE info.framework

IsLaravelConfig(fp) ==
  \/ includes(fp, <<"config", "/">>)
  \/ includes(fp, <<".env">>)
  \/ includes(fp, <<"routes", "/">>)
  \/ includes(fp, <<"app", "/", "Providers", "/">>)

IsLaravelFrontend(fp) ==
  \/ includes(fp, <<"resources", "/", "js", "/">>)
  \/ includes(fp, <<"resources", "/", "css", "/">>)
  \/ includes(fp, <<"resources", "/", "views", "/">>)
  \/ includes(fp, <<"webpack.mix.js">>)
  \/ includes(fp, <<"vite.config.js">>)

IsNodeSource(fp) ==
  \/ includes(fp, <<"src", "/">>)
  \/ includes(fp, <<"public", "/">>)
  \/ includes(fp, <<"assets", "/">>)
  \/ includes(fp, <<"webpack.config.js">>)
  \/ includes(fp, <<"vite.config.js">>)
  \/ includes(fp, <<"tsconfig.json">>)
  \/ includes(fp, <<"babel.config.js">>)

IsSystemFile(fp) ==
  \/ includes(fp, <<"nginx.conf">>)
  \/ includes(fp, <<"php.ini">>)
  \/ includes(fp, <<"supervisor", "/">>)

\* one iteration of the loop over changedFiles; a reason is the pair of its
\* text and the path (or count) interpolated into it
ClassifyFile(a, file, type, framework) ==
  LET fp == toLowerCase(file)
      composer == fp = <<"composer.json">> \/ fp = <<"composer.lock">>
      npm == fp = <<"package.json">> \/ fp = <<"package-lock.json">>
      laravel == type = "php" /\ framework = "laravel"
      node == ~laravel /\ type = "nodejs"
      a1 == IF composer
            THEN [a EXCEPT !.needsComposerInstall = TRUE,
                           !.reasons = Append(@, <<"Composer dependencies changed", file>>)]
            ELSE a
      a2 == IF npm
            THEN [a1 EXCEPT !.needsNpmInstall = TRUE,
                            !.reasons = Append(@, <<"NPM dependencies changed", file>>)]
            ELSE a1
      a3 == IF laravel /\ IsLaravelConfig(fp)
            THEN [a2 EXCEPT !.needsLaravelOptimize = TRUE,
                            !.reasons = Append(@, <<"Laravel configuration changed", file>>)]
            ELSE a2
      a4 == IF laravel /\ includes(fp, <<"database", "/", "migrations", "/">>)
            THEN [a3 EXCEPT !.needsLaravelMigrate = TRUE,
                            !.reasons = Append(@, <<"Database migration detected", file>>)]
            ELSE a3
      a5 == IF laravel /\ IsLaravelFrontend(fp)
            THEN [a4 EXCEPT !.needsNpmBuild = TRUE,
                            !.reasons = Append(@, <<"Frontend files changed", file>>)]
            ELSE a4
      a6 == IF node /\ IsNodeSource(fp)
            THEN [a5 EXCEPT !.needsNpmBuild = TRUE,
                            !.reasons = Append(@, <<"Source files changed", file>>)]
            ELSE a5
  IN  IF IsSystemFile(fp)
      THEN [a6 EXCEPT !.needsSystemRestart = TRUE,
                      !.reasons = Append(@, <<"System configuration changed", file>>)]
      ELSE a6

\* a variant in which the flags of an earlier path do not outlast the next
ClassifyFilesLastWins(a, files, type, framework) ==
  IF files = <<>> THEN a
  ELSE ClassifyFile(a, files[Len(files)], type, framework)

RECURSIVE ClassifyFiles(_, _, _, _)
ClassifyFiles(a, files, type, framework) ==
  IF files = <<>> THEN a
  ELSE ClassifyFiles(ClassifyFile(a, Head(files), type, framework),
                     Tail(files), type, framework)

\* the catch block: the diff (or the project analysis) threw
DiffFailedAnalysis(a) ==
  [a EXCEPT !.needsComposerInstall = TRUE,
            !.needsNpmInstall = TRUE,
            !.needsNpmBuild = TRUE,
            !.needsLaravelOptimize = TRUE,
            !.reasons = Append(@, <<"Git analysis failed, running full deployment", <<>>>>)]

\* analyzeChangesForSmartDeploy: ok is FALSE when the try block throws
analyzeChangesForSmartDeploy(ok, files, hint, info) ==
  IF ~ok THEN DiffFailedAnalysis(InitialAnalysis)
  ELSE IF files = <<>>
  THEN [InitialAnalysis EXCEPT
          !.reasons = Append(@, <<"No changes detected in last commit", <<>>>>)]
  ELSE ClassifyFiles(
         [InitialAnalysis EXCEPT
            !.reasons = Append(@, <<"Detected changes in files", <<ToString(Len(files))>>>>)],
         files, ActualProjectType(hint, info), ProjectFramework(hint, info))

\* ---------------------------------------------- ProjectAnalyzer (planner)
GitPullCmd == <<"git", "pull", "origin", "main">>
ComposerInstallCmd == <<"composer", "install", "--no-dev", "--optimize-autoloader">>
NpmInstallCmd == <<"npm", "install", "--production">>
NpmBuildCmd == <<"npm", "run", "build">>
OptimizeCmd == <<"php", "artisan", "optimize:clear">>
MigrateCmd == <<"php", "artisan", "migrate", "--force">>
Pm2RestartCmd == <<"pm2", "restart", "0">>
RestartFpmCmd == <<"sudo", "systemctl", "restart", "php8.3-fpm">>
RestartNginxCmd == <<"sudo", "systemctl", "restart", "nginx">>

When(flag, cmds) == IF flag THEN cmds ELSE <<>>

\* a variant that restarts the process manager after any dependency install
generateSmartDeployCommandsAnyInstall(a) ==
  When(a.needsGitPull, <<GitPullCmd>>)
  \o When(a.needsComposerInstall, <<ComposerInstallCmd>>)
  \o When(a.needsNpmInstall, <<NpmInstallCmd>>)
  \o When(a.needsNpmBuild, <<NpmBuildCmd>>)
  \o When(a.needsLaravelOptimize, <<OptimizeCmd>>)
  \o When(a.needsLaravelMigrate, <<MigrateCmd>>)
  \o When(a.needsNpmBuild \/ a.needsNpmInstall \/ a.needsComposerInstall,
          <<Pm2RestartCmd>>)
  \o When(a.needsSystemRestart, <<RestartFpmCmd, RestartNginxCmd>>)

\* a variant that builds before it installs the frontend dependencies
generateSmartDeployCommandsBuildFirst(a) ==
  When(a.needsGitPull, <<GitPullCmd>>)
  \o When(a.needsComposerInstall, <<ComposerInstallCmd>>)
  \o When(a.needsNpmBuild, <<NpmBuildCmd>>)
  \o When(a.needsNpmInstall, <<NpmInstallCmd>>)
  \o When(a.needsLaravelOptimize, <<OptimizeCmd>>)
  \o When(a.needsLaravelMigrate, <<MigrateCmd>>)
  \o When(a.needsNpmBuild \/ a.needsNpmInstall, <<Pm2RestartCmd>>)
  \o When(a.needsSystemRestart, <<RestartFpmCmd, RestartNginxCmd>>)

\* a variant that restarts the process manager only after a build
generateSmartDeployCommandsRestartOnBuild(a) ==
  When(a.needsGitPull, <<GitPullCmd>>)
  \o When(a.needsComposerInstall, <<ComposerInstallCmd>>)
  \o When(a.needsNpmInstall, <<NpmInstallCmd>>)
  \o When(a.needsNpmBuild, <<NpmBuildCmd>>)
  \o When(a.needsLaravelOptimize, <<OptimizeCmd>>)
  \o When(a.needsLaravelMigrate, <<MigrateCmd>>)
  \o When(a.needsNpmBuild, <<Pm2RestartCmd>>)
  \o When(a.needsSystemRestart, <<RestartFpmCmd, RestartNginxCmd>>)

generateSmartDeployCommands(a) ==
  When(a.needsGitPull, <<GitPullCmd>>)
  \o When(a.needsComposerInstall, <<ComposerInstallCmd>>)
  \o When(a.needsNpmInstall, <<NpmInstallCmd>>)
  \o When(a.needsNpmBuild, <<NpmBuildCmd>>)
  \o When(a.needsLaravelOptimize, <<OptimizeCmd>>)
  \o When(a.needsLaravelMigrate, <<MigrateCmd>>)
  \o When(a.needsNpmBuild \/ a.needsNpmInstall, <<Pm2RestartCmd>>)
  \o When(a.needsSystemRestart, <<RestartFpmCmd, RestartNginxCmd>>)

\* ------------------------------------------------- ServerCommandExecutor
\* a variant that does not ask for a credential
validateConfigNoCredential(config, password) ==
  IF ~config.server.present
  THEN <<"Server configuration is missing">>
  ELSE When(config.server.host = "", <<"Server host is required">>)
       \o When(config.server.user = "", <<"Server user is required">>)

\* validateConfig: the list of error messages, empty when the configuration
\* is accepted; password is the SSH_PASSWORD environment variable
validateConfig(config, password) ==
  IF ~config.server.present
  THEN <<"Server configuration is missing">>
  ELSE When(config.server.host = "", <<"Server host is required">>)
       \o When(config.server.user = "", <<"Server user is required">>)
       \o When(config.server.keyPath = Undefined /\ password = Undefined,
               <<"Either SSH key path or SSH_PASSWORD environment variable is required">>)

\* the commands of one category, tagged with it (an absent category is the
\* empty list: both add nothing)
CategoryCommands(config, cat) ==
  [k \in 1..Len(config.commands[cat]) |->
     [category |-> cat, command |-> config.commands[cat][k]]]

\* a variant that collects the backend commands before the frontend ones
CollectAllCommandsBackendFirst(config) ==
  CategoryCommands(config, "git")
  \o CategoryCommands(config, "backend")
  \o CategoryCommands(config, "frontend")
  \o CategoryCommands(config, "database")
  \o CategoryCommands(config, "docker")
  \o CategoryCommands(config, "system")

\* executeCommands, lines 295-315: all commands in execution order
CollectAllCommands(config) ==
  CategoryCommands(config, "git")
  \o CategoryCommands(config, "frontend")
  \o CategoryCommands(config, "backend")
  \o CategoryCommands(config, "database")
  \o CategoryCommands(config, "docker")
  \o CategoryCommands(config, "system")

\* a variant in which output on stderr marks the command as failed
StreamCloseResultStderrFails(code, output, errorOutput) ==
  [ success |-> code = 0 /\ Trim(errorOutput) = "",
    output |-> Trim(output),
    error |-> IF Trim(errorOutput) = "" THEN Undefined ELSE Trim(errorOutput) ]

\* the result executeSingleCommand resolves with when the stream closes
StreamCloseResult(code, output, errorOutput) ==
  [ success |-> code = 0,
    output |-> Trim(output),
    error |-> IF Trim(errorOutput) = "" THEN Undefined ELSE Trim(errorOutput) ]

\* the result executeSingleCommand resolves with when exec calls back with
\* an error
ExecErrorResult(message) ==
  [ success |-> FALSE, output |-> "", error |-> message ]

\* the result the catch block of executeCommandsSequentially records
CaughtErrorResult(message) ==
  [ success |-> FALSE, output |-> "", error |-> message ]

\* a variant that aborts on the first failure
askContinueOnErrorAbort == FALSE

\* askContinueOnError
askContinueOnError == TRUE

\* ---------------------------------------------------------------- state
VARIABLES
  mode,            \* "full" (deploy) or "smart" (deploy-smart)
  config,          \* serverCommands of .smart-commit.json
  sshPassword,     \* process.env.SSH_PASSWORD
  repo,            \* what git and the project analysis will report
  pc,              \* position of the CLI entry point
  validation,      \* whether validateConfig ran, and its errors
  analysis,        \* SmartDeployAnalysis of this run
  smartCommands,   \* the plan derived from it
  allCommands,     \* the commands handed to executeViaSsh
  conn,            \* the ssh2 client: none, connecting, ready, closed
  sessions,        \* number of connect calls of this run
  promise,         \* the promise of executeViaSsh
  loop,            \* position of executeCommandsSequentially
  i,               \* its loop index (1-based)
  inflight,        \* commands whose remote process is running
  results,         \* the SshExecutionResult list
  execCalls,       \* history: every conn.exec call, in call order
  outcomes,        \* history: what happened to each command, by index
  lostAt,          \* history: command at which the transport was lost
  caller,          \* what the entry point got back from the executor
  faults,          \* faults the environment may still show in this run
  exited,          \* bin/smart-commit.js called process.exit
  response,        \* the text the AI assistant returned
  commitMsgFile,   \* commit-msg hook: the contents of the message file
  createArgs,      \* CommitMessage.create: the type and description given
  commitMessage    \* CommitMessage.create: the entity built, or the error

vars == << mode, config, sshPassword, repo, pc, validation, analysis,
           smartCommands, allCommands, conn, sessions, promise, loop, i,
           inflight, results, execCalls, outcomes, lostAt, caller,
           faults, exited, response, commitMsgFile, createArgs,
           commitMessage >>

\* what the commit-msg hook and CommitMessage.create work on
entityVars == << commitMsgFile, createArgs, commitMessage >>

\* no commit message is involved in a deployment
NoEntity ==
  /\ commitMsgFile = <<>>
  /\ createArgs = <<>>
  /\ commitMessage = <<>>

inputVars == << mode, config, sshPassword, repo, response, entityVars >>
planVars == << analysis, smartCommands >>
sshVars == << allCommands, conn, sessions, promise, loop, i, inflight,
              results, execCalls, outcomes, lostAt, faults >>

\* ------------------------------------- ProjectAnalyzer (setup-time config)
\* a JSON value as far as its shape goes: its type, the keys it has, whether
\* every command category it has is a list, and the settings it carries
Json(type, keys, lists, body) ==
  [type |-> type, keys |-> keys, commandLists |-> lists, body |-> body]

ConfigKeys == {"enabled", "autoExecute", "projectPath", "commands", "whitelist"}

EmptyCommands == [c \in {Categories[k] : k \in 1..Len(Categories)} |-> <<>>]

EmptyBody ==
  [enabled |-> FALSE, autoExecute |-> FALSE, commands |-> EmptyCommands,
   whitelist |-> {}]

ConfigCacheCmd == <<"php", "artisan", "config:cache">>
RouteCacheCmd == <<"php", "artisan", "route:cache">>
ViewCacheCmd == <<"php", "artisan", "view:cache">>

\* getDefaultConfig
getDefaultConfig(projectInfo) ==
  Json("object", ConfigKeys, TRUE,
       [ enabled |-> TRUE,
         autoExecute |-> FALSE,
         commands |->
           IF projectInfo.type = "php"
           THEN [EmptyCommands EXCEPT
                   !.backend = << ComposerInstallCmd, ConfigCacheCmd,
                                  RouteCacheCmd, ViewCacheCmd >>,
                   !.database = <<MigrateCmd>>]
           ELSE IF projectInfo.type = "nodejs"
           THEN [EmptyCommands EXCEPT
                   !.frontend = <<NpmBuildCmd>>,
                   !.backend = <<NpmInstallCmd>>]
           ELSE EmptyCommands,
         whitelist |->
           IF projectInfo.type = "php"
           THEN {<<"composer">>, <<"php", "artisan">>, <<"sudo", "systemctl">>}
           ELSE IF projectInfo.type = "nodejs"
           THEN {<<"npm">>, <<"yarn">>, <<"pnpm">>, <<"sudo", "systemctl">>}
           ELSE {} ])

\* the settings an answer of the assistant may carry
AnswerBodies ==
  [ enabled : {TRUE},
    autoExecute : BOOLEAN,
    commands : { [EmptyCommands EXCEPT !.frontend = <<NpmBuildCmd>>],
                 [EmptyCommands EXCEPT !.backend = <<ComposerInstallCmd>>] },
    whitelist : {{<<"npm">>}} ]

\* an object that has only the given keys of the settings
JsonObject(keys, lists, body) ==
  Json("object", keys,
       IF "commands" \in keys THEN lists ELSE TRUE,
       [ enabled |-> IF "enabled" \in keys THEN body.enabled ELSE FALSE,
         autoExecute |-> IF "autoExecute" \in keys THEN body.autoExecute ELSE FALSE,
         commands |-> IF "commands" \in keys /\ lists THEN body.commands
                      ELSE EmptyCommands,
         whitelist |-> IF "whitelist" \in keys THEN body.whitelist ELSE {} ])

\* what JSON.parse makes of the answers that are JSON: null, a number, an
\* array, and objects with and without the keys of a configuration
JsonValues ==
  { Json(t, {}, TRUE, EmptyBody) : t \in {"null", "number", "array"} }
  \cup { JsonObject(keys, lists, body) :
           keys \in { ConfigKeys, ConfigKeys \ {"commands"},
                      ConfigKeys \ {"whitelist"}, {} },
           lists \in BOOLEAN,
           body \in AnswerBodies }

\* the answers of generateText: text that is no JSON, and JSON text
NoResponse == [parses |-> FALSE, value |-> Json("undefined", {}, TRUE, EmptyBody)]

Responses ==
  {NoResponse} \cup [parses : {TRUE}, value : JsonValues]

\* generateServerCommandsConfig, from the answer on: try { return
\* JSON.parse(response) } catch { return getDefaultConfig(projectInfo) }
generateServerCommandsConfig(resp, projectInfo) ==
  IF resp.parses THEN resp.value ELSE getDefaultConfig(projectInfo)

\* ------------------------------------------------------------------ Init
Servers ==
  {NoServer} \cup
  [ present : {TRUE}, host : {"", "h"}, user : {"", "u"},
    keyPath : {Undefined, "~/.ssh/id_rsa"} ]

NoCommands == [c \in {Categories[k] : k \in 1..Len(Categories)} |-> <<>>]

CommandLists == SeqsUpTo(ConfiguredCommands, MaxPerCat)

\* the lists of the first k categories, together holding at most n commands
RECURSIVE CategoryLists(_, _)
CategoryLists(k, n) ==
  IF k = 0 THEN {<<>>}
  ELSE UNION { { Append(rest, list) : rest \in CategoryLists(k - 1, n - Len(list)) } :
               list \in {l \in CommandLists : Len(l) <= n} }

CategoryIndex(cat) == CHOOSE k \in 1..Len(Categories) : Categories[k] = cat

CommandConfigs ==
  { [c \in {Categories[k] : k \in 1..Len(Categories)} |-> lists[CategoryIndex(c)]] :
      lists \in CategoryLists(Len(Categories), MaxCmds) }

Whitelist == {<<"npm">>}

Configs(commandConfigs) ==
  [ enabled : BOOLEAN, autoExecute : BOOLEAN, server : Servers,
    commands : commandConfigs, whitelist : {Whitelist} ]

Repos(hints) ==
  [ diffOk : BOOLEAN, changedFiles : SeqsUpTo(ChangedPaths, MaxFiles),
    projectInfo : ProjectInfos, projectTypeHint : hints ]

\* a full deploy never looks at the repository
NoRepo ==
  [ diffOk |-> TRUE, changedFiles |-> <<>>,
    projectInfo |-> [type |-> "unknown", framework |-> Undefined],
    projectTypeHint |-> Undefined ]

\* no executor has been created
NoSession ==
  /\ validation = [ran |-> FALSE, errors |-> <<>>]
  /\ allCommands = <<>>
  /\ conn = "none"
  /\ sessions = 0
  /\ promise = "none"
  /\ loop = "idle"
  /\ i = 1
  /\ inflight = {}
  /\ results = <<>>
  /\ execCalls = <<>>
  /\ outcomes = <<>>
  /\ lostAt = -1
  /\ caller = [got |-> "nothing", report |-> <<>>]
  /\ exited = FALSE

InitRun ==
  /\ pc = "start"
  /\ analysis = InitialAnalysis
  /\ smartCommands = <<>>
  /\ NoSession

\* the repositories a smart deploy may find; without a diff there is no
\* list of changed files
SmartRepos ==
  { r \in Repos({Undefined}) : ~r.diffOk => r.changedFiles = <<>> }

\* a configuration that passes validation and needs no prompt, with only
\* whitelisted commands
ReferenceConfigs ==
  { c \in Configs({ cmds \in CommandConfigs :
                      \A k \in 1..Len(Categories) :
                        \A n \in 1..Len(cmds[Categories[k]]) :
                          cmds[Categories[k]][n] = NpmInstall }) :
      /\ c.enabled /\ c.autoExecute /\ c.server.present
      /\ c.server.host = "h" /\ c.server.user = "u"
      /\ c.server.keyPath # Undefined }

\* every configuration against an environment without faults, and the
\* reference configurations against an environment with faults
Init ==
  /\ \/ /\ mode = "full"
        /\ sshPassword \in {Undefined, "secret"}
        /\ config \in Configs(CommandConfigs)
        /\ repo = NoRepo
        /\ faults = 0
     \/ /\ mode = "smart"
        /\ sshPassword \in {Undefined, "secret"}
        /\ config \in Configs({NoCommands})
        /\ repo \in SmartRepos
        /\ faults = 0
     \/ /\ mode = "full"
        /\ sshPassword = Undefined
        /\ config \in ReferenceConfigs
        /\ repo = NoRepo
        /\ faults = MaxFaults
     \/ /\ mode = "smart"
        /\ sshPassword = Undefined
        /\ config \in { c \in ReferenceConfigs : c.commands = NoCommands }
        /\ repo \in SmartRepos
        /\ faults = MaxFaults
  /\ response = NoResponse
  /\ NoEntity
  /\ InitRun

\* ------------------------------------------------------- CLI entry points
\* what the operator may type at the prompt
Answers == {"y", "Yes", " YES ", "n", "", "yeah"}

\* answer.toLowerCase().trim() on the answers of the model
NormalizeAnswer(answer) ==
  CASE answer = "Yes" -> "yes"
    [] answer = " YES " -> "yes"
    [] OTHER -> answer

\* a variant that takes whatever begins like a yes
askForConfirmationLenient(answer) ==
  NormalizeAnswer(answer) \in {"y", "yes", "yeah"}

\* askForConfirmation
askForConfirmation(answer) ==
  NormalizeAnswer(answer) = "y" \/ NormalizeAnswer(answer) = "yes"

\* an error thrown by the entry point reaches the catch of bin/smart-commit.js
Thrown == "failed"

\* a variant that goes on whatever validateConfig returned
DeployServerValidateUnchecked ==
  /\ pc = "start" /\ mode = "full"
  /\ validation' = [ran |-> TRUE, errors |-> validateConfig(config, sshPassword)]
  /\ pc' = IF ~config.autoExecute THEN "confirm" ELSE "execute"
  /\ UNCHANGED << inputVars, planVars, sshVars, caller, exited >>

\* deployServer up to its first await: validate, then prompt or execute
DeployServerValidate ==
  /\ pc = "start" /\ mode = "full"
  /\ validation' = [ran |-> TRUE, errors |-> validateConfig(config, sshPassword)]
  /\ pc' = IF validation'.errors # <<>> THEN Thrown
           ELSE IF ~config.autoExecute THEN "confirm"
           ELSE "execute"
  /\ UNCHANGED << inputVars, planVars, sshVars, caller, exited >>

\* deploySmart up to its first await: enabled check, then validate
DeploySmartValidate ==
  /\ pc = "start" /\ mode = "smart"
  /\ IF ~config.enabled
     THEN /\ pc' = Thrown
          /\ UNCHANGED validation
     ELSE /\ validation' = [ran |-> TRUE,
                            errors |-> validateConfig(config, sshPassword)]
          /\ pc' = IF validation'.errors # <<>> THEN Thrown ELSE "analyze"
  /\ UNCHANGED << inputVars, planVars, sshVars, caller, exited >>

\* deploySmart: analyze the last commit and derive the plan
DeploySmartAnalyze ==
  /\ pc = "analyze"
  /\ analysis' = analyzeChangesForSmartDeploy(repo.diffOk, repo.changedFiles,
                                              repo.projectTypeHint, repo.projectInfo)
  /\ smartCommands' = generateSmartDeployCommands(analysis')
  /\ pc' = IF smartCommands' = <<>> THEN "nothing" ELSE "confirm"
  /\ UNCHANGED << inputVars, validation, sshVars, caller, exited >>

\* both entry points: the yes/no prompt
ConfirmWith(answer) ==
  /\ pc = "confirm"
  /\ pc' = IF askForConfirmation(answer) THEN "execute" ELSE "cancelled"
  /\ UNCHANGED << inputVars, validation, planVars, sshVars, caller, exited >>

Confirm == \E answer \in Answers : ConfirmWith(answer)

\* the environment shows one more fault
Fault == faults > 0 /\ faults' = faults - 1

\* executeViaSsh up to conn.connect: reading the key file may throw, which
\* rejects the promise before any connection is attempted
executeViaSsh(commands) ==
  /\ allCommands' = commands
  /\ \E keyReadable \in BOOLEAN :
       /\ config.server.keyPath = Undefined => keyReadable
       /\ IF keyReadable
          THEN /\ conn' = "connecting"
               /\ sessions' = sessions + 1
               /\ promise' = "pending"
               /\ pc' = "awaiting"
               /\ UNCHANGED << caller, faults >>
          ELSE /\ Fault
               /\ promise' = "rejected"
               /\ pc' = Thrown
               /\ caller' = [got |-> "error", report |-> <<>>]
               /\ UNCHANGED << conn, sessions >>
  /\ UNCHANGED << loop, i, inflight, results, execCalls, outcomes, lostAt >>

\* a variant that only asks for the server block
ExecuteCommandsWhenDisabled ==
  /\ pc = "execute" /\ mode = "full"
  /\ IF ~config.server.present
     THEN /\ pc' = Thrown
          /\ caller' = [got |-> "error", report |-> <<>>]
          /\ UNCHANGED sshVars
     ELSE executeViaSsh(CollectAllCommands(config))
  /\ UNCHANGED << inputVars, validation, planVars, exited >>

\* deployServer -> executeCommands
ExecuteCommands ==
  /\ pc = "execute" /\ mode = "full"
  /\ IF ~config.enabled \/ ~config.server.present
     THEN /\ pc' = Thrown
          /\ caller' = [got |-> "error", report |-> <<>>]
          /\ UNCHANGED sshVars
     ELSE executeViaSsh(CollectAllCommands(config))
  /\ UNCHANGED << inputVars, validation, planVars, exited >>

\* deploySmart -> executeSmartCommands: the smart plan over one session
ExecuteSmartCommands ==
  /\ pc = "execute" /\ mode = "smart"
  /\ executeViaSsh([k \in 1..Len(smartCommands) |->
                      [category |-> "smart", command |-> smartCommands[k]]])
  /\ UNCHANGED << inputVars, validation, planVars, exited >>

\* bin/smart-commit.js: the catch of the command calls process.exit(1)
ProcessExit ==
  /\ pc = Thrown /\ ~exited
  /\ exited' = TRUE
  /\ UNCHANGED << inputVars, pc, validation, planVars, sshVars, caller >>

\* the status the process ends with: 1 from process.exit(1) in the catch of
\* the command, 0 when the entry point returned and the process just ends
ExitStatus == IF exited THEN 1 ELSE 0

\* deployServer: the numbered list printed above 'Continue? [y/N]'
ShownCommands(c) ==
  [k \in 1..Len(c.commands.git) |->
     [category |-> "git", command |-> c.commands.git[k]]]
  \o [k \in 1..Len(c.commands.frontend) |->
        [category |-> "frontend", command |-> c.commands.frontend[k]]]
  \o [k \in 1..Len(c.commands.backend) |->
        [category |-> "backend", command |-> c.commands.backend[k]]]
  \o [k \in 1..Len(c.commands.database) |->
        [category |-> "database", command |-> c.commands.database[k]]]
  \o [k \in 1..Len(c.commands.docker) |->
        [category |-> "docker", command |-> c.commands.docker[k]]]
  \o [k \in 1..Len(c.commands.system) |->
        [category |-> "system", command |-> c.commands.system[k]]]

\* ------------------------------------------------------ the ssh2 session
cliVars == << inputVars, validation, planVars >>

\* a variant that hands back the report only of a session that still stands
ResolveWhileConnected ==
  IF promise = "pending" /\ conn = "ready"
  THEN /\ promise' = "resolved"
       /\ pc' = "done"
       /\ caller' = [got |-> "report", report |-> results']
  ELSE UNCHANGED << promise, pc, caller >>

\* the promise of executeViaSsh settles once; the entry point then has its
\* report (executeCommands returns results) or the error
Resolve ==
  IF promise = "pending"
  THEN /\ promise' = "resolved"
       /\ pc' = "done"
       /\ caller' = [got |-> "report", report |-> results']
  ELSE UNCHANGED << promise, pc, caller >>

Reject ==
  IF promise = "pending"
  THEN /\ promise' = "rejected"
       /\ pc' = Thrown
       /\ caller' = [got |-> "error", report |-> <<>>]
  ELSE UNCHANGED << promise, pc, caller >>

\* the command that is being issued or is running
CurrentCommand == IF inflight # {} THEN CHOOSE k \in inflight : TRUE ELSE i

\* conn.on('ready'): start executeCommandsSequentially
ConnReady ==
  /\ conn = "connecting" /\ ~exited
  /\ conn' = "ready"
  /\ loop' = "next"
  /\ UNCHANGED << cliVars, pc, allCommands, sessions, promise, i, inflight,
                  results, execCalls, outcomes, lostAt, caller, faults,
                  exited >>

\* conn.on('error') before ready: connection refused, authentication failure
ConnectError ==
  /\ conn = "connecting" /\ ~exited
  /\ Fault
  /\ conn' = "closed"
  /\ lostAt' = 0
  /\ Reject
  /\ UNCHANGED << cliVars, allCommands, sessions, loop, i, inflight, results,
                  execCalls, outcomes, exited >>

\* conn.on('error') after ready: the transport fails mid-session
TransportError ==
  /\ conn = "ready" /\ ~exited
  /\ Fault
  /\ conn' = "closed"
  /\ lostAt' = CurrentCommand
  /\ Reject
  /\ UNCHANGED << cliVars, allCommands, sessions, loop, i, inflight, results,
                  execCalls, outcomes, exited >>

\* the server ends the session: 'end' and 'close' are emitted, no 'error',
\* and the executor listens to neither
Disconnect ==
  /\ conn = "ready" /\ ~exited
  /\ Fault
  /\ conn' = "closed"
  /\ lostAt' = CurrentCommand
  /\ UNCHANGED << cliVars, pc, allCommands, sessions, promise, loop, i,
                  inflight, results, execCalls, outcomes, caller, exited >>

\* a variant that does not await the command
AwaitSingleCommandSkipped == "next"

\* where the loop stands after conn.exec: it awaits executeSingleCommand
AwaitSingleCommand == "awaiting"

\* a variant that connects anew for every command
SessionForCommandReconnect == sessions + 1

\* the session a command runs on: the loop passes the one conn along
SessionForCommand == sessions

\* after a result is recorded: askContinueOnError decides
AfterResult ==
  IF askContinueOnError
  THEN /\ loop' = "next"
       /\ i' = i + 1
       /\ UNCHANGED << conn, promise, pc, caller >>
  ELSE \* the loop throws: executeViaSsh's catch ends the session and rejects
       /\ loop' = "thrown"
       /\ i' = i
       /\ conn' = "closed"
       /\ Reject

\* executeCommandsSequentially: conn.exec for command i; on a closed
\* connection exec throws 'Not connected' and the catch records the error
IssueCommand ==
  /\ loop = "next" /\ i <= Len(allCommands) /\ ~exited
  /\ sessions' = SessionForCommand
  /\ execCalls' = Append(execCalls, [cmd |-> i, session |-> sessions', conn |-> conn])
  /\ IF conn = "ready"
     THEN /\ inflight' = inflight \cup {i}
          /\ loop' = AwaitSingleCommand
          /\ i' = IF AwaitSingleCommand = "awaiting" THEN i ELSE i + 1
          /\ UNCHANGED << results, outcomes, conn, promise, pc, caller >>
     ELSE /\ results' = Append(results, CaughtErrorResult("Not connected"))
          /\ outcomes' = Append(outcomes, [cmd |-> i, kind |-> "not connected", code |-> NoExitCode])
          /\ AfterResult
          /\ UNCHANGED inflight
  /\ UNCHANGED << cliVars, allCommands, lostAt, faults, exited >>

\* a command that does anything but exit 0 silently is a fault, unless it
\* only follows from the loss of the connection
OutcomeFault(quiet) ==
  IF quiet \/ conn # "ready" THEN faults' = faults ELSE Fault

\* executeSingleCommand: exec calls back with an error (the channel could
\* not be opened)
ExecCallbackError ==
  /\ inflight # {} /\ ~exited
  /\ \E k \in inflight :
       /\ inflight' = inflight \ {k}
       /\ results' = Append(results, ExecErrorResult("Channel open failure"))
       /\ outcomes' = Append(outcomes, [cmd |-> k, kind |-> "exec error", code |-> NoExitCode])
  /\ OutcomeFault(FALSE)
  /\ AfterResult
  /\ UNCHANGED << cliVars, allCommands, sessions, execCalls, lostAt, exited >>

\* executeSingleCommand: the stream closes; after the connection is lost it
\* closes without an exit code
StreamClose ==
  /\ inflight # {} /\ ~exited
  /\ \E k \in inflight, code \in ExitCodes, output \in RawOutputs,
        errorOutput \in RawErrors :
       /\ conn # "ready" => code = NoExitCode
       /\ inflight' = inflight \ {k}
       /\ results' = Append(results, StreamCloseResult(code, output, errorOutput))
       /\ outcomes' = Append(outcomes, [cmd |-> k, kind |-> "exit", code |-> code])
       /\ OutcomeFault(code = 0 /\ output = "" /\ errorOutput = "")
  /\ AfterResult
  /\ UNCHANGED << cliVars, allCommands, sessions, execCalls, lostAt, exited >>

\* a variant that resolves without conn.end()
LoopDoneWithoutEnd ==
  /\ loop = "next" /\ i > Len(allCommands) /\ ~exited
  /\ loop' = "done"
  /\ UNCHANGED << results, conn >>
  /\ Resolve
  /\ UNCHANGED << cliVars, allCommands, sessions, i, inflight, execCalls,
                  outcomes, lostAt, faults, exited >>

\* executeViaSsh: the loop finished; conn.end() and resolve
LoopDone ==
  /\ loop = "next" /\ i > Len(allCommands) /\ ~exited
  /\ loop' = "done"
  /\ conn' = "closed"
  /\ UNCHANGED results
  /\ Resolve
  /\ UNCHANGED << cliVars, allCommands, sessions, i, inflight, execCalls,
                  outcomes, lostAt, faults, exited >>

\* ------------------------------------------------------------------ Spec
Next ==
  \/ DeployServerValidate
  \/ DeploySmartValidate
  \/ DeploySmartAnalyze
  \/ Confirm
  \/ ExecuteCommands
  \/ ExecuteSmartCommands
  \/ ProcessExit
  \/ ConnReady
  \/ ConnectError
  \/ TransportError
  \/ Disconnect
  \/ IssueCommand
  \/ ExecCallbackError
  \/ StreamClose
  \/ LoopDone

Spec == Init /\ [][Next]_vars

\* ------------------------------------------------- Spec with scheduling
\* the runs against an environment that may show faults, with commands in
\* the first and the last category and a commit of at most one path (the
\* session sees the length of the plan, not where it came from)
LiveInit ==
  /\ Init
  /\ faults = MaxFaults
  /\ \A k \in 2..(Len(Categories) - 1) : config.commands[Categories[k]] = <<>>
  /\ Len(repo.changedFiles) <= 1

\* what keeps a session moving: the handshake ends in 'ready' or, at the
\* latest after ssh2's readyTimeout, in 'error'; the continuations of the
\* loop run once the promise they await has settled; a command that was
\* issued calls back or closes its stream (ssh2 closes the channels of a
\* connection that is gone)
Fairness ==
  /\ WF_vars(ConnReady \/ ConnectError)
  /\ WF_vars(IssueCommand)
  /\ WF_vars(StreamClose \/ ExecCallbackError)
  /\ WF_vars(LoopDone)

LiveSpec == LiveInit /\ [][Next]_vars /\ Fairness

\* ------------------------------------------------- the planner on its own
\* generateSmartDeployCommands is public: a caller may hand it any decision
ReasonLists ==
  { <<>>,
    << <<"No changes detected in last commit", <<>>>> >>,
    << <<"Detected changes in files", <<"1">>>>,
       <<"Composer dependencies changed", <<"composer.json">>>> >> }

Decisions ==
  [ needsGitPull : BOOLEAN,
    needsComposerInstall : BOOLEAN,
    needsComposerUpdate : BOOLEAN,
    needsNpmInstall : BOOLEAN,
    needsNpmBuild : BOOLEAN,
    needsLaravelOptimize : BOOLEAN,
    needsLaravelMigrate : BOOLEAN,
    needsSystemRestart : BOOLEAN,
    reasons : ReasonLists ]

\* the planner reads no configuration
NoConfig ==
  [ enabled |-> FALSE, autoExecute |-> FALSE, server |-> NoServer,
    commands |-> NoCommands, whitelist |-> Whitelist ]

PlanInit ==
  /\ mode = "plan"
  /\ config = NoConfig
  /\ sshPassword = Undefined
  /\ repo = NoRepo
  /\ faults = 0
  /\ response = NoResponse
  /\ NoEntity
  /\ pc = "decided"
  /\ analysis \in Decisions
  /\ smartCommands = <<>>
  /\ NoSession

\* a variant that keeps the command list between calls
PlanDecisionAccumulating ==
  /\ mode = "plan" /\ pc \in {"decided", "planned"}
  /\ smartCommands' = smartCommands \o generateSmartDeployCommands(analysis)
  /\ pc' = IF pc = "decided" THEN "planned" ELSE "replanned"
  /\ UNCHANGED << inputVars, validation, analysis, sshVars, caller, exited >>

\* one call of generateSmartDeployCommands: the list is built afresh
\* (const commands = []) and the decision is only read
PlanDecision ==
  /\ mode = "plan" /\ pc \in {"decided", "planned"}
  /\ smartCommands' = generateSmartDeployCommands(analysis)
  /\ pc' = IF pc = "decided" THEN "planned" ELSE "replanned"
  /\ UNCHANGED << inputVars, validation, analysis, sshVars, caller, exited >>

PlanNext == PlanDecision

PlanSpec == PlanInit /\ [][PlanNext]_vars

\* ---------------------------------------------- the classifier on its own
\* analyzeChangesForSmartDeploy is public: any caller, any project type hint
ClassifyInit ==
  /\ mode = "classify"
  /\ config = NoConfig
  /\ sshPassword = Undefined
  /\ repo \in [ diffOk : BOOLEAN,
                changedFiles : SeqsUpTo(ChangedPaths, MaxChanged),
                projectInfo : ProjectInfos,
                projectTypeHint : ProjectTypeHints ]
  /\ ~repo.diffOk => repo.changedFiles = <<>>
  /\ response = NoResponse
  /\ NoEntity
  /\ faults = 0
  /\ pc = "start"
  /\ analysis = InitialAnalysis
  /\ smartCommands = <<>>
  /\ NoSession

\* one call of analyzeChangesForSmartDeploy, and the plan of its decision
ClassifyChanges ==
  /\ mode = "classify" /\ pc = "start"
  /\ analysis' = analyzeChangesForSmartDeploy(repo.diffOk, repo.changedFiles,
                                              repo.projectTypeHint, repo.projectInfo)
  /\ smartCommands' = generateSmartDeployCommands(analysis')
  /\ pc' = "classified"
  /\ UNCHANGED << inputVars, validation, sshVars, caller, exited >>

ClassifyNext == ClassifyChanges

ClassifySpec == ClassifyInit /\ [][ClassifyNext]_vars

\* --------------------------------------------- generating a configuration
ConfigInit ==
  /\ mode = "setup"
  /\ config = NoConfig
  /\ sshPassword = Undefined
  /\ repo \in { [NoRepo EXCEPT !.projectInfo = info] : info \in ProjectInfos }
  /\ response \in Responses
  /\ NoEntity
  /\ faults = 0
  /\ pc = "start"
  /\ analysis = InitialAnalysis
  /\ smartCommands = <<>>
  /\ NoSession

\* generateConfig: the generated configuration goes to .smart-commit.json
GenerateConfig ==
  /\ mode = "setup" /\ pc = "start"
  /\ config' = generateServerCommandsConfig(response, repo.projectInfo)
  /\ pc' = "generated"
  /\ UNCHANGED << mode, sshPassword, repo, response, entityVars, validation,
                  planVars, sshVars, caller, exited >>

ConfigNext == GenerateConfig

ConfigSpec == ConfigInit /\ [][ConfigNext]_vars

\* ------------------------------------------------------- commit-msg hook
\* a text is a sequence of lines (what split('\n') gives, so never empty);
\* a line is a token sequence: words (\w+), " ", ":", "(", ")", "!"
EmptyText == << <<>> >>

\* a word of 73 characters and one of 101
LongWord == "w73"
VeryLongWord == "w101"

Words == {"feat", "fix", "bug", "add", "ui", "Improved", "improved",
          "message", LongWord, VeryLongWord}

\* String.prototype.length of one token
TokenLength(t) ==
  CASE t = LongWord -> 73
    [] t = VeryLongWord -> 101
    [] t \in {"Improved", "improved"} -> 8
    [] t = "message" -> 7
    [] t = "feat" -> 4
    [] t \in {"fix", "bug", "add"} -> 3
    [] t = "ui" -> 2
    [] OTHER -> 1

RECURSIVE length(_)
length(line) ==
  IF line = <<>> THEN 0 ELSE TokenLength(Head(line)) + length(Tail(line))

\* String.prototype.trim on one line
RECURSIVE TrimStart(_)
TrimStart(line) ==
  IF line # <<>> /\ Head(line) = " " THEN TrimStart(Tail(line)) ELSE line

RECURSIVE TrimEnd(_)
TrimEnd(line) ==
  IF line # <<>> /\ line[Len(line)] = " "
  THEN TrimEnd(SubSeq(line, 1, Len(line) - 1))
  ELSE line

TrimLine(line) == TrimEnd(TrimStart(line))

\* String.prototype.trim on a text: blank lines at either end go as well
TrimText(text) ==
  LET inked == {k \in 1..Len(text) : TrimLine(text[k]) # <<>>} IN
  IF inked = {} THEN EmptyText
  ELSE LET first == CHOOSE k \in inked : \A j \in inked : k <= j
           last == CHOOSE k \in inked : \A j \in inked : j <= k
       IN [k \in 1..(last - first + 1) |->
             LET line == text[first + k - 1] IN
             IF first = last THEN TrimLine(line)
             ELSE IF k = 1 THEN TrimStart(line)
             ELSE IF k = last - first + 1 THEN TrimEnd(line)
             ELSE line]

\* the positions b of line at which /^\w+(\(.+\))?!?:/ has just read its ':'
HeadColons(line) ==
  IF Len(line) < 2 \/ line[1] \notin Words THEN {}
  ELSE LET afterScope ==
             {2} \cup IF line[2] = "("
                      THEN {c + 1 : c \in {c \in 4..Len(line) : line[c] = ")"}}
                      ELSE {}
           afterBang ==
             afterScope \cup {k + 1 : k \in {k \in afterScope :
                                               k <= Len(line) /\ line[k] = "!"}}
       IN {b \in afterBang : b <= Len(line) /\ line[b] = ":"}

\* /^(\w+)(\(.+\))?!?: (.+)$/ of ConventionalCommitFormat.STANDARD
MatchesPattern(header) ==
  \E b \in HeadColons(header) :
     /\ Len(header) >= b + 2
     /\ header[b + 1] = " "

\* /^\w+(\(.+\))?!?:/ of improveMessage
LooksConventional(line) == HeadColons(line) # {}

maxHeaderLength == 72
maxBodyLineLength == 100

\* ConventionalCommitFormat.validate
validate(message) ==
  LET header == message[1] IN
  IF header = <<>>
  THEN [isValid |-> FALSE, errors |-> <<"Commit message cannot be empty">>]
  ELSE LET tooLong == IF length(header) > maxHeaderLength
                      THEN <<"Header is too long">> ELSE <<>>
           format == IF ~MatchesPattern(header)
                     THEN <<"Header does not match conventional commit format">>
                     ELSE <<>>
           body == IF \E k \in 2..Len(message) :
                          length(message[k]) > maxBodyLineLength
                   THEN <<"Line is too long">> ELSE <<>>
           errors == tooLong \o format \o body
       IN [isValid |-> errors = <<>>, errors |-> errors]

\* generateText threw
AiFailure == <<"error">>

\* CommitMessageValidator.improveMessage, given what generateText returned
improveMessage(message, improved) ==
  IF improved = AiFailure THEN message
  ELSE LET lines == improved
           found == {k \in 1..Len(lines) :
                       LET trimmed == TrimLine(lines[k]) IN
                       /\ trimmed # <<>>
                       /\ ~includes(toLowerCase(trimmed), <<"improved">>)
                       /\ ~includes(toLowerCase(trimmed), <<"suggestion">>)
                       /\ LooksConventional(trimmed)}
           improvedMessage ==
             IF found # {}
             THEN << lines[CHOOSE k \in found : \A j \in found : k <= j] >>
             ELSE IF TrimLine(lines[1]) # <<>> THEN << TrimLine(lines[1]) >>
             ELSE message
       IN TrimText(improvedMessage)

\* no improvedMessage in the result of validateAndImprove
NoMessage == <<>>

\* CommitMessageValidator.validateAndImprove, with the assistant the hook
\* hands to the validator
validateAndImprove(message, options, aiText) ==
  LET validationOf == validate(message)
      rejected == [isValid |-> validationOf.isValid,
                   improvedMessage |-> NoMessage,
                   errors |-> validationOf.errors]
  IN
  IF validationOf.isValid /\ ~options.autoImprove
  THEN [isValid |-> TRUE, improvedMessage |-> NoMessage, errors |-> <<>>]
  ELSE IF options.strict /\ ~validationOf.isValid
  THEN [isValid |-> FALSE, improvedMessage |-> NoMessage,
        errors |-> validationOf.errors]
  ELSE IF options.autoImprove
  THEN LET improved == improveMessage(message, aiText) IN
       IF validate(improved).isValid
       THEN [isValid |-> TRUE, improvedMessage |-> improved, errors |-> <<>>]
       ELSE rejected
  ELSE rejected

\* the messages git may hand to the hook
CommitTexts ==
  { << <<"fix", " ", "bug">> >>,
    << <<"fix", " ", "bug">>, <<>> >>,
    << <<"feat", ":", " ", "add">> >>,
    << <<" ", "feat", ":", " ", "add">>, <<>> >>,
    << <<"feat", "(", "ui", ")", "!", ":", " ", "add">> >>,
    << <<"feat", ":", "add">> >>,
    << <<"feat", ":", " ", LongWord>> >>,
    << <<"feat", ":", " ", "add">>, <<>>, <<VeryLongWord>> >>,
    EmptyText }

\* what generateText may return
AiTexts ==
  { AiFailure,
    EmptyText,
    << <<"fix", ":", " ", "bug">> >>,
    << <<"Improved", " ", "message", ":">>, <<" ", "fix", ":", " ", "bug">> >>,
    << <<"fix", " ", "bug">> >>,
    << <<"fix", ":", "bug">> >>,
    << <<"fix", ":", " ", LongWord>> >> }

\* conventionalCommitsOnly of the merged configuration
StrictSettings == {Undefined, "true", "false"}

\* config.conventionalCommitsOnly ?? true
StrictOption(setting) == IF setting = Undefined THEN TRUE ELSE setting = "true"

HookInit ==
  /\ mode = "hook"
  /\ config \in [conventionalCommitsOnly : StrictSettings]
  /\ sshPassword = Undefined
  /\ repo \in [commitMessage : CommitTexts]
  /\ commitMsgFile = repo.commitMessage
  /\ createArgs = <<>>
  /\ commitMessage = <<>>
  /\ response \in AiTexts
  /\ faults = 0
  /\ pc = "start"
  /\ analysis = InitialAnalysis
  /\ smartCommands = <<>>
  /\ NoSession

\* handleCommitMsgHook
HandleCommitMsgHook ==
  /\ mode = "hook" /\ pc = "start"
  /\ LET message == TrimText(commitMsgFile)
         result == validateAndImprove(
                     message,
                     [autoImprove |-> TRUE,
                      strict |-> StrictOption(config.conventionalCommitsOnly)],
                     response)
     IN IF ~result.isValid
        THEN /\ exited' = TRUE
             /\ pc' = "rejected"
             /\ UNCHANGED commitMsgFile
        ELSE /\ commitMsgFile' =
                  IF /\ result.improvedMessage # NoMessage
                     /\ result.improvedMessage # message
                  THEN result.improvedMessage
                  ELSE commitMsgFile
             /\ pc' = "accepted"
             /\ UNCHANGED exited
  /\ UNCHANGED << mode, config, sshPassword, repo, response, createArgs,
                  commitMessage, validation, planVars, sshVars, caller >>

HookNext == HandleCommitMsgHook

HookSpec == HookInit /\ [][HookNext]_vars

\* -------------------------------------------------- CommitMessage.create
\* strings are character sequences here, so that trim and toLowerCase act
Chars == {" ", "a", "A"}
Strings == SeqsUpTo(Chars, MaxStr)

\* throw new Error(message)
Throw(message) == [threw |-> TRUE, error |-> message]

\* a variant that only tests the arguments for being empty
createUntrimmedTest(type, description) ==
  IF type = <<>> THEN Throw("Commit type is required")
  ELSE IF description = <<>> THEN Throw("Commit description is required")
  ELSE [ threw |-> FALSE,
         type |-> toLowerCase(TrimLine(type)),
         description |-> TrimLine(description) ]

\* CommitMessage.create, the optional parts (scope, body, footer) not given
create(type, description) ==
  IF type = <<>> \/ Len(TrimLine(type)) = 0
  THEN Throw("Commit type is required")
  ELSE IF description = <<>> \/ Len(TrimLine(description)) = 0
  THEN Throw("Commit description is required")
  ELSE [ threw |-> FALSE,
         type |-> toLowerCase(TrimLine(type)),
         description |-> TrimLine(description) ]

CreateInit ==
  /\ mode = "create"
  /\ config = NoConfig
  /\ sshPassword = Undefined
  /\ repo = NoRepo
  /\ response = NoResponse
  /\ commitMsgFile = <<>>
  /\ createArgs \in [type : Strings, description : Strings]
  /\ commitMessage = <<>>
  /\ faults = 0
  /\ pc = "start"
  /\ analysis = InitialAnalysis
  /\ smartCommands = <<>>
  /\ NoSession

\* a caller builds the entity
CreateCommitMessage ==
  /\ mode = "create" /\ pc = "start"
  /\ commitMessage' = create(createArgs.type, createArgs.description)
  /\ pc' = "created"
  /\ UNCHANGED << mode, config, sshPassword, repo, response, commitMsgFile,
                  createArgs, validation, planVars, sshVars, caller, exited >>

CreateNext == CreateCommitMessage

CreateSpec == CreateInit /\ [][CreateNext]_vars

\* ---------------------------------------------------- what a run prints
\* the contents of the key file that readFileSync returns
KeyFileContents == "PRIVATE KEY A"

\* the message of an ssh2 'error' event
Ssh2ErrorMessage == "All configured authentication methods failed"

\* connectionConfig of executeViaSsh
connectionConfig(server, password, key) ==
  [ host |-> server.host,
    username |-> server.user,
    privateKey |-> IF server.keyPath # Undefined THEN key ELSE Undefined,
    password |-> password ]

\* a variant that prints the connection settings it is about to use
ConnectLogDebug(server, cc) ==
  << <<"Server:", server.user, "@", server.host>>,
     <<"Connecting with", cc.username, cc.password, cc.privateKey>> >>
  \o When(conn \in {"ready", "closed"} /\ lostAt # 0,
          << <<"Connected to server">> >>)
  \o When(promise = "rejected" /\ lostAt # -1,
          << <<"SSH connection error:", Ssh2ErrorMessage>> >>)

\* the lines executeCommands and executeViaSsh have printed, with the
\* connection settings cc in scope
ConnectLog(server, cc) ==
  << <<"Server:", server.user, "@", server.host>> >>
  \o When(conn \in {"ready", "closed"} /\ lostAt # 0,
          << <<"Connected to server">> >>)
  \o When(promise = "rejected" /\ lostAt # -1,
          << <<"SSH connection error:", Ssh2ErrorMessage>> >>)

\* the lines executeCommandsSequentially has printed, one per command
\* issued, and the report entries: the output, and the error of a failure
CommandLog ==
  [k \in 1..Len(execCalls) |->
     <<allCommands[execCalls[k].cmd].category, ":">>
       \o allCommands[execCalls[k].cmd].command]
  \o [k \in 1..Len(results) |->
        IF results[k].success THEN <<results[k].output>>
        ELSE <<"Error:", results[k].error, results[k].output>>]

\* what the entry point and executeViaSsh have printed, when the
\* environment holds the given password and key file
SetupLog(password, key) ==
  (IF validation.ran
   THEN LET errors == validateConfig(config, password)
        IN  [k \in 1..Len(errors) |->
               <<"Invalid server configuration:", errors[k]>>]
   ELSE <<>>)
  \o (IF promise # "none"
      THEN ConnectLog(config.server,
                      connectionConfig(config.server, password, key))
      ELSE <<>>)

\* everything a run has printed or reported; the command loop is handed
\* the open connection, never the settings it was opened with
RunLog(password, key) == SetupLog(password, key) \o CommandLog

\* ---------------------------------------------------------------- claims
\* the whitelist permits a command that starts with one of its prefixes
Permitted(command, whitelist) == \E p \in whitelist : IsPrefix(p, command)

\* the commands this run is going to execute
PlannedCommands ==
  IF mode = "full"
  THEN LET all == CollectAllCommands(config)
       IN  [k \in 1..Len(all) |-> all[k].command]
  ELSE smartCommands

\* C1: when a planned command matches no whitelist prefix, validation
\* returns a non-empty error list and the run never opens a connection
C1_UnpermittedCommandRejected ==
  ( /\ validation.ran
    /\ \E k \in 1..Len(PlannedCommands) :
         ~Permitted(PlannedCommands[k], config.whitelist) )
  => (validation.errors # <<>> /\ sessions = 0)

\* C2: a connection is attempted only after validateConfig ran in this run
\* and returned no error; a run whose validation returned an error has
\* stopped and never connects
C2_ValidatedBeforeConnect ==
  /\ (sessions > 0 \/ conn # "none" \/ promise # "none")
       => (validation.ran /\ validation.errors = <<>>)
  /\ (validation.ran /\ validation.errors # <<>>)
       => (pc = Thrown /\ sessions = 0 /\ conn = "none")

C2_Witness ==
  /\ mode = "smart" /\ conn = "ready" /\ sessions = 1
  /\ validation.ran /\ validation.errors = <<>>

\* the success a command's remote outcome stands for
OutcomeSucceeded(o) == o.kind = "exit" /\ o.code = 0

\* C3: a failed command never ends the loop; every result recorded so far
\* is the outcome of the command at its position, and a returned report
\* holds exactly one result per planned command, in plan order
C3_FailureContinues ==
  /\ loop # "thrown"
  /\ Len(outcomes) = Len(results)
  /\ \A k \in 1..Len(results) :
       /\ outcomes[k].cmd = k
       /\ results[k].success = OutcomeSucceeded(outcomes[k])
  /\ caller.got = "report"
       => /\ caller.report = results
          /\ Len(caller.report) = Len(allCommands)
          /\ \A k \in 1..Len(allCommands) : execCalls[k].cmd = k

C3_Witness ==
  /\ caller.got = "report" /\ Len(caller.report) = 3
  /\ caller.report[1].success
  /\ ~caller.report[2].success
  /\ caller.report[3].success
  /\ outcomes[2].kind = "exit" /\ outcomes[2].code = 1
  /\ lostAt = -1

\* C4: at most one command is in flight; the commands issued so far are
\* the first commands of the plan, each once and in plan order; a command
\* is issued only when every earlier one has closed and has its result
C4_OneCommandAtATime ==
  /\ Cardinality(inflight) <= 1
  /\ Len(execCalls) <= Len(allCommands)
  /\ \A k \in 1..Len(execCalls) : execCalls[k].cmd = k
  /\ Len(execCalls) = Len(results) + Cardinality(inflight)
  /\ \A k \in inflight : k = Len(execCalls)

C4_Witness ==
  /\ inflight = {2} /\ Len(results) = 1 /\ Len(allCommands) = 3

\* C5: a run connects at most once, an invocation that reached connect has
\* exactly one session, and every command is issued on that session after
\* it became ready
C5_OneSession ==
  /\ sessions <= 1
  /\ promise \in {"pending", "resolved"} => sessions = 1
  /\ \A k \in 1..Len(execCalls) :
       /\ execCalls[k].session = 1
       /\ execCalls[k].conn \in {"ready", "closed"}
  /\ conn \in {"none", "connecting"} => execCalls = <<>>

C5_Witness ==
  /\ Len(execCalls) = 3 /\ sessions = 1 /\ promise = "resolved"
  /\ \A k \in 1..3 : execCalls[k].conn = "ready"

C7_ReportSurvivesTransportError ==
  (lostAt # -1 /\ caller.got # "nothing")
  => /\ caller.got = "report"
     /\ \A k \in 1..(lostAt - 1) :
          k <= Len(caller.report) /\ caller.report[k] = results[k]

\* C8: once the transport is lost at command i, conn.exec is called for no
\* later command
C8_NoCommandAfterTransportError ==
  lostAt # -1 => \A k \in 1..Len(execCalls) : execCalls[k].cmd <= lostAt

\* C9: a result is successful exactly when the remote process exited with
\* code 0, whatever was captured on stdout and stderr
C9_SuccessIffExitZero ==
  /\ Len(outcomes) = Len(results)
  /\ \A k \in 1..Len(results) :
       results[k].success <=> OutcomeSucceeded(outcomes[k])

C9_Witness ==
  \E k \in 1..Len(results) :
    /\ results[k].success
    /\ results[k].error = "boom"
    /\ results[k].output = "ok"

AllNeedFlags(a) ==
  /\ a.needsGitPull /\ a.needsComposerInstall /\ a.needsNpmInstall
  /\ a.needsNpmBuild /\ a.needsLaravelOptimize /\ a.needsLaravelMigrate
  /\ a.needsSystemRestart

EveryPhaseCommand ==
  { GitPullCmd, ComposerInstallCmd, NpmInstallCmd, NpmBuildCmd, OptimizeCmd,
    MigrateCmd, RestartFpmCmd, RestartNginxCmd }

\* C10: when the diff fails, the decision has every need-flag set and the
\* plan holds the command of every phase
C10_DiffFailureNeedsEverything ==
  (mode = "smart" /\ ~repo.diffOk /\ analysis.reasons # <<>>)
  => /\ AllNeedFlags(analysis)
     /\ \A c \in EveryPhaseCommand :
          \E k \in 1..Len(smartCommands) : smartCommands[k] = c

\* no need-flag of the decision is set
NoNeedFlag(a) ==
  /\ ~a.needsGitPull /\ ~a.needsComposerInstall /\ ~a.needsNpmInstall
  /\ ~a.needsNpmBuild /\ ~a.needsLaravelOptimize /\ ~a.needsLaravelMigrate
  /\ ~a.needsSystemRestart

\* the loop body sets no flag for this path: no category predicate matched
Unmatched(file, r) ==
  LET type == ActualProjectType(r.projectTypeHint, r.projectInfo)
      framework == ProjectFramework(r.projectTypeHint, r.projectInfo)
      a == ClassifyFile(InitialAnalysis, file, type, framework)
  IN  [a EXCEPT !.reasons = <<>>] = InitialAnalysis

\* the smart deploy has analyzed the last commit
Analyzed == mode = "smart" /\ analysis.reasons # <<>>

\* C11: when files changed and no changed path matches a category
\* predicate, the decision has every need-flag false and the plan is empty
C11_UnmatchedChangesPlanNothing ==
  ( /\ Analyzed /\ repo.diffOk /\ repo.changedFiles # <<>>
    /\ \A k \in 1..Len(repo.changedFiles) : Unmatched(repo.changedFiles[k], repo) )
  => (NoNeedFlag(analysis) /\ smartCommands = <<>>)

\* C12: with an empty change list the decision has the single reason 'no
\* changes detected', the plan is empty, the run reports that nothing is to
\* be deployed and ends without a prompt, a connection or a command
C12_EmptyDiffDeploysNothing ==
  (Analyzed /\ repo.diffOk /\ repo.changedFiles = <<>>)
  => /\ analysis.reasons = << <<"No changes detected in last commit", <<>>>> >>
     /\ smartCommands = <<>>
     /\ pc = "nothing"
     /\ sessions = 0 /\ conn = "none" /\ execCalls = <<>>

\* C13: when composer.json is the only changed path, the decision sets the
\* backend-install flag and no other install, build, optimize, migration or
\* restart flag, and the plan is exactly source sync, backend install
C13_ComposerManifestOnly ==
  (Analyzed /\ repo.diffOk /\ repo.changedFiles = << <<"composer.json">> >>)
  => /\ analysis.needsComposerInstall
     /\ ~analysis.needsComposerUpdate /\ ~analysis.needsNpmInstall
     /\ ~analysis.needsNpmBuild /\ ~analysis.needsLaravelOptimize
     /\ ~analysis.needsLaravelMigrate /\ ~analysis.needsSystemRestart
     /\ smartCommands = <<GitPullCmd, ComposerInstallCmd>>

C13_Witness ==
  /\ Analyzed /\ repo.diffOk /\ repo.changedFiles = << <<"composer.json">> >>
  /\ repo.projectInfo.framework = "laravel"
  /\ pc = "execute" /\ Len(smartCommands) = 2

\* the planner has returned a plan for the decision
Planned == mode = "plan" /\ pc \in {"planned", "replanned"}

\* the phase a command of the plan belongs to
Phase(cmd) ==
  CASE cmd = GitPullCmd -> 1
    [] cmd = ComposerInstallCmd -> 2
    [] cmd = NpmInstallCmd -> 3
    [] cmd = NpmBuildCmd -> 4
    [] cmd = OptimizeCmd -> 5
    [] cmd = MigrateCmd -> 6
    [] OTHER -> 7

IndexesOf(cmds) == {k \in 1..Len(smartCommands) : smartCommands[k] \in cmds}

\* C14: for every combination of need-flags the plan is in phase order:
\* source sync, backend install, frontend install, frontend build, framework
\* optimize, migration, service restart; every install comes before the
\* build, which comes before every restart
C14_PhaseOrder ==
  Planned =>
    /\ \A j, k \in 1..Len(smartCommands) :
         j < k => Phase(smartCommands[j]) <= Phase(smartCommands[k])
    /\ \A n \in IndexesOf({ComposerInstallCmd, NpmInstallCmd}) :
         \A b \in IndexesOf({NpmBuildCmd}) :
           /\ n < b
           /\ \A r \in IndexesOf({Pm2RestartCmd, RestartFpmCmd, RestartNginxCmd}) :
                b < r

C14_Witness ==
  /\ Planned /\ AllNeedFlags(analysis)
  /\ smartCommands = << GitPullCmd, ComposerInstallCmd, NpmInstallCmd,
                        NpmBuildCmd, OptimizeCmd, MigrateCmd, Pm2RestartCmd,
                        RestartFpmCmd, RestartNginxCmd >>

\* the plan holds the process-manager restart once, after every install,
\* build, optimize and migration command and before the system restarts
Pm2RestartInPlace ==
  \E r \in 1..Len(smartCommands) :
    /\ smartCommands[r] = Pm2RestartCmd
    /\ \A k \in 1..Len(smartCommands) :
         /\ k < r => Phase(smartCommands[k]) <= 6
         /\ k > r => smartCommands[k] \in {RestartFpmCmd, RestartNginxCmd}

FlagsOnly(a) == [a EXCEPT !.reasons = <<>>]

WellShaped(v) ==
  /\ v.type = "object"
  /\ {"commands", "whitelist"} \subseteq v.keys
  /\ v.commandLists

\* C17: whatever the assistant answers, the generated configuration is
\* well-shaped or is the default of the project type
C17_MalformedAnswerReplaced ==
  (mode = "setup" /\ pc = "generated")
  => (WellShaped(config) \/ config = getDefaultConfig(repo.projectInfo))

CredentialError ==
  "Either SSH key path or SSH_PASSWORD environment variable is required"

\* neither a key path nor the SSH_PASSWORD secret is there
NoCredential ==
  config.server.present /\ config.server.keyPath = Undefined
  /\ sshPassword = Undefined

\* C18: validation returns errors when the server block is missing, the
\* host is empty, the user is empty or no credential is there; the error of
\* the missing credential is its own and is given exactly in that case; a
\* configuration with host, user and key path whose commands the whitelist
\* permits gets the empty list (stated as: errors are returned only for a
\* configuration that is not of that kind)
C18_ValidationErrors ==
  validation.ran =>
    /\ ( \/ ~config.server.present
         \/ config.server.host = ""
         \/ config.server.user = ""
         \/ NoCredential ) => validation.errors # <<>>
    /\ NoCredential
         <=> \E k \in 1..Len(validation.errors) : validation.errors[k] = CredentialError
    /\ validation.errors # <<>>
         => ~( /\ config.server.present
               /\ config.server.host # "" /\ config.server.user # ""
               /\ config.server.keyPath # Undefined
               /\ LET plan == PlannedCommands
                  IN  \A k \in 1..Len(plan) :
                        Permitted(plan[k], config.whitelist) )

C18_Witness ==
  /\ validation.ran /\ NoCredential
  /\ config.server.host = "h" /\ config.server.user = "u"
  /\ validation.errors = <<CredentialError>>
  /\ sessions = 0

\* C19: in both entry points the prompt is shown only when autoExecute is
\* not set, and execution starts from the prompt exactly when autoExecute is
\* not set
C19_PromptUnlessAutoExecute ==
  [][ /\ (pc' = "confirm" /\ pc # "confirm") => ~config.autoExecute
      /\ (pc' = "execute" /\ pc # "execute")
           => (pc = "confirm" <=> ~config.autoExecute) ]_vars

\* C20: when the entry point has its report, the process ends with a
\* non-zero status if some result has success = false and with zero if
\* every command succeeded
C20_ExitStatusReflectsFailure ==
  (pc = "done" /\ caller.got = "report")
  => ( (\E k \in 1..Len(caller.report) : ~caller.report[k].success)
       <=> ExitStatus # 0 )

\* another password and another key file, for a run that differs in the
\* credential value only
OtherPassword == IF sshPassword = Undefined THEN Undefined ELSE "hunter2"
OtherKeyFileContents == "PRIVATE KEY B"

\* the run has ended: nothing is printed after this
Ended == exited \/ pc \in {"done", "cancelled", "nothing"}

\* C21: whatever the outcome, no line printed in the run and no report entry
\* holds the password or the contents of the key file, and the run prints
\* and reports the same with another password and another key file
C21_CredentialsNeverLogged ==
  Ended =>
    LET log == RunLog(sshPassword, KeyFileContents) IN
    /\ \A n \in 1..Len(log) :
          \A k \in 1..Len(log[n]) :
            log[n][k] = Undefined \/ log[n][k] \notin {sshPassword, KeyFileContents}
    /\ SetupLog(sshPassword, KeyFileContents)
         = SetupLog(OtherPassword, OtherKeyFileContents)

C21_Witness ==
  /\ promise = "resolved"
  /\ sshPassword = "secret" /\ config.server.keyPath # Undefined
  /\ Len(results) = 2
  /\ LET log == RunLog(sshPassword, KeyFileContents)
     IN  \E n \in 1..Len(log) : log[n] = <<"Connected to server">>

\* the reasons that name a changed path of the commit
PathReasons ==
  { k \in 1..Len(analysis.reasons) :
      \E n \in 1..Len(repo.changedFiles) :
        analysis.reasons[k][2] = repo.changedFiles[n] }

\* some reason names a changed path under one of the given category texts
Explained(texts) == \E k \in PathReasons : analysis.reasons[k][1] \in texts

\* C22: in a decision made from the diff every need-flag that is true has a
\* reason naming a changed path and the category that set the flag; for the
\* source-sync flag any reason naming a changed path is taken
C22_FlagsExplainedByReasons ==
  (Analyzed /\ repo.diffOk) =>
    /\ analysis.needsGitPull => PathReasons # {}
    /\ analysis.needsComposerInstall => Explained({"Composer dependencies changed"})
    /\ analysis.needsNpmInstall => Explained({"NPM dependencies changed"})
    /\ analysis.needsNpmBuild
         => Explained({"Frontend files changed", "Source files changed"})
    /\ analysis.needsLaravelOptimize => Explained({"Laravel configuration changed"})
    /\ analysis.needsLaravelMigrate => Explained({"Database migration detected"})
    /\ analysis.needsSystemRestart => Explained({"System configuration changed"})

\* the classifier has returned its decision
Classified == mode = "classify" /\ pc = "classified"

\* the project is a Laravel project and the caller says so or says nothing
LaravelProject ==
  /\ repo.projectInfo = [type |-> "php", framework |-> "laravel"]
  /\ repo.projectTypeHint \in {Undefined, "unknown", "php"}

\* the documented patterns, on the path as git prints it
DocComposer(file) == file \in {<<"composer.json">>, <<"composer.lock">>}
DocNpm(file) == file \in {<<"package.json">>, <<"package-lock.json">>}

\* C23: for a Laravel project, detected or hinted, every changed path that
\* matches a documented pattern sets the flag of that pattern
C23_DocumentedPatternsSetFlags ==
  (Classified /\ repo.diffOk /\ LaravelProject) =>
    \A n \in 1..Len(repo.changedFiles) :
      LET file == repo.changedFiles[n]
      IN  /\ DocComposer(file) => analysis.needsComposerInstall
          /\ DocNpm(file) => analysis.needsNpmInstall
          /\ IsLaravelConfig(file) => analysis.needsLaravelOptimize
          /\ includes(file, <<"database", "/", "migrations", "/">>)
               => analysis.needsLaravelMigrate
          /\ IsLaravelFrontend(file) => analysis.needsNpmBuild
          /\ IsSystemFile(file) => analysis.needsSystemRestart

\* the commands of one category among those handed to the executor
OfCategory(cat) ==
  LET pick == {k \in 1..Len(allCommands) : allCommands[k].category = cat}
  IN  [n \in 1..Cardinality(pick) |->
         allCommands[CHOOSE k \in pick :
                       Cardinality({j \in pick : j <= k}) = n].command]

\* C24: a full deploy that returns its report has issued every configured
\* command exactly once, category after category in the order git, frontend,
\* backend, database, docker, system and in each category's configured
\* order, and that sequence is the numbered list shown before the prompt
C24_ExecutesWhatIsShown ==
  (mode = "full" /\ caller.got = "report") =>
    /\ allCommands = ShownCommands(config)
    /\ \A c \in 1..Len(Categories) :
         OfCategory(Categories[c]) = config.commands[Categories[c]]
    /\ \A j, k \in 1..Len(allCommands) :
         j < k => CategoryIndex(allCommands[j].category)
                    <= CategoryIndex(allCommands[k].category)
    /\ Len(execCalls) = Len(allCommands)
    /\ \A k \in 1..Len(execCalls) : execCalls[k].cmd = k

C24_Witness ==
  /\ mode = "full" /\ caller.got = "report"
  /\ ~config.autoExecute
  /\ Len(config.commands.system) = 1 /\ Len(config.commands.frontend) = 1
  /\ Len(config.commands.backend) = 1
  /\ Len(execCalls) = 3
  /\ allCommands[1].category = "frontend" /\ allCommands[3].category = "system"

\* what the assistant's answer makes of the message the hook was given
HookMessage == TrimText(repo.commitMessage)
Improvement == improveMessage(HookMessage, response)

\* C25: a message that does not follow the conventional format is improved
\* with the assistant first: when the improvement is valid the message file
\* holds it and the commit goes on, and the commit is rejected only when
\* the improvement is not a valid message
C25_InvalidMessageImprovedBeforeRejected ==
  (mode = "hook" /\ pc # "start" /\ ~validate(HookMessage).isValid) =>
     /\ validate(Improvement).isValid =>
          /\ pc = "accepted"
          /\ ExitStatus = 0
          /\ commitMsgFile = Improvement
     /\ ExitStatus # 0 => ~validate(Improvement).isValid

\* s consists of spaces only (the empty string included)
Blank(s) == \A k \in 1..Len(s) : s[k] = " "

\* t is s without the spaces at its two ends
IsTrimOf(t, s) ==
  /\ t = <<>> \/ (t[1] # " " /\ t[Len(t)] # " ")
  /\ \E lead, trail \in 0..Len(s) :
        /\ lead + Len(t) + trail = Len(s)
        /\ \A k \in 1..Len(s) :
             IF k <= lead \/ k > lead + Len(t) THEN s[k] = " "
             ELSE s[k] = t[k - lead]

\* t is s with every capital replaced by its small letter
IsLowerOf(t, s) ==
  /\ Len(t) = Len(s)
  /\ \A k \in 1..Len(s) : t[k] = (IF s[k] = "A" THEN "a" ELSE s[k])

\* C26: CommitMessage.create throws 'Commit type is required' or 'Commit
\* description is required' for a type or description that is empty or
\* blank and builds no message; what it accepts it stores with the type
\* trimmed and lower-cased and the description trimmed
C26_CreateRejectsBlankAndNormalises ==
  (mode = "create" /\ pc = "created") =>
     IF Blank(createArgs.type) \/ Blank(createArgs.description)
     THEN /\ commitMessage.threw
          /\ commitMessage.error \in {"Commit type is required",
                                      "Commit description is required"}
          /\ Blank(createArgs.type) =>
               commitMessage.error = "Commit type is required"
          /\ ~Blank(createArgs.type) =>
               commitMessage.error = "Commit description is required"
     ELSE /\ ~commitMessage.threw
          /\ \E t \in Strings :
               /\ IsTrimOf(t, createArgs.type)
               /\ IsLowerOf(commitMessage.type, t)
          /\ IsTrimOf(commitMessage.description, createArgs.description)

C26_Witness ==
  /\ mode = "create" /\ pc = "created"
  /\ createArgs.type = <<" ", "A", " ">>
  /\ createArgs.description = <<"A", " ", "a">>
  /\ ~commitMessage.threw
  /\ commitMessage.type = <<"a">>
  /\ commitMessage.description = <<"A", " ", "a">>

\* the invocation has its report, one result per command, or the error
FinalState ==
  \/ caller.got = "report" /\ Len(caller.report) = Len(allCommands)
  \/ caller.got = "error"

\* C27: an invocation that has started connecting reaches a final state,
\* the report with a result for every command or the transport error, as
\* long as every command that was issued exits or loses its connection
C27_ConnectingLeadsToFinalState ==
  (conn = "connecting") ~> FinalState

\* a session that was ended by the server with a command running, and the
\* report returned all the same
C27_Witness ==
  /\ caller.got = "report"
  /\ Len(caller.report) = Len(allCommands)
  /\ Len(allCommands) >= 2
  /\ lostAt = 1

\* the answers of the model that read 'y' or 'yes' once the case of the
\* letters and the blanks around them are ignored
YesAnswers == {"y", "Yes", " YES "}

\* no connection was opened and no command was issued
Untouched(c, n, calls) == c = "none" /\ n = 0 /\ calls = <<>>

\* C28: an answer to the confirmation prompt other than 'y' or 'yes'
\* (letters of either case, blanks around it ignored, the empty answer
\* included) ends the run as cancelled; no connection is opened and no
\* command issued, then or later
C28_RefusalCancelsBeforeConnecting ==
  [][ /\ pc = "confirm" =>
          \A answer \in Answers \ YesAnswers :
             ConfirmWith(answer) =>
                /\ pc' = "cancelled"
                /\ Untouched(conn', sessions', execCalls')
      /\ pc = "cancelled" =>
          /\ pc' = "cancelled"
          /\ Untouched(conn', sessions', execCalls')
    ]_vars

C28_Witness ==
  /\ pc = "cancelled"
  /\ mode = "full" /\ config.enabled /\ validation.errors = <<>>
  /\ config.commands.git # <<>>
  /\ Untouched(conn, sessions, execCalls)

\* C29: with enabled = false neither entry point opens a connection or
\* issues a command, whatever the rest of the configuration and the answer
\* at the prompt; the run stops with an error (or at a refused prompt) and
\* never hands back a report
C29_DisabledNeverConnects ==
  (mode \in {"full", "smart"} /\ ~config.enabled) =>
     /\ Untouched(conn, sessions, execCalls)
     /\ results = <<>>
     /\ caller.got # "report"
     /\ pc \in {"start", "confirm", "execute", "cancelled", Thrown}
     /\ mode = "smart" => pc \in {"start", Thrown}

\* a disabled configuration that is valid otherwise, confirmed at the prompt
C29_Witness ==
  /\ mode = "full" /\ ~config.enabled /\ ~config.autoExecute
  /\ validation.ran /\ validation.errors = <<>>
  /\ config.commands.git # <<>>
  /\ pc = Thrown /\ caller.got = "error" /\ ExitStatus = 1
  /\ Untouched(conn, sessions, execCalls)

\* the need-flags of a decision
NeedFlags ==
  { "needsGitPull", "needsComposerInstall", "needsComposerUpdate",
    "needsNpmInstall", "needsNpmBuild", "needsLaravelOptimize",
    "needsLaravelMigrate", "needsSystemRestart" }

\* the decision for the change list files, the project being that of repo
DecisionFor(files) ==
  analyzeChangesForSmartDeploy(TRUE, files, repo.projectTypeHint,
                               repo.projectInfo)

\* the commands of a plan
Commands(plan) == {plan[k] : k \in 1..Len(plan)}

\* the flags of a decision, its reasons left out
FlagsOf(a) == [f \in NeedFlags |-> a[f]]

\* decision b has every flag of a, and its plan every command of a's plan
Covers(b, a) ==
  /\ \A f \in NeedFlags : a[f] => b[f]
  /\ Commands(generateSmartDeployCommands(a))
       \subseteq Commands(generateSmartDeployCommands(b))

\* the change lists of the model with the same paths as files
SamePaths(files) ==
  LET paths == {files[k] : k \in 1..Len(files)} IN
  { other \in SeqsUpTo(paths, MaxChanged) :
      {other[k] : k \in 1..Len(other)} = paths }

\* C30: with the diff available and the project fixed, each need-flag of
\* the decision for a non-empty change list is the OR of that flag over
\* the decisions for its paths taken alone; so the flags are the same for
\* every order and repetition of the paths, and a further path clears no
\* flag and removes no command from the plan
C30_FlagsAreUnionOverPaths ==
  (Classified /\ repo.diffOk /\ repo.changedFiles # <<>>) =>
     LET files == repo.changedFiles
         flags == FlagsOf(analysis)
         alone == [k \in 1..Len(files) |-> FlagsOf(DecisionFor(<<files[k]>>))]
     IN
     /\ \A f \in NeedFlags :
          flags[f] <=> \E k \in 1..Len(files) : alone[k][f]
     /\ \A other \in SamePaths(files) : FlagsOf(DecisionFor(other)) = flags
     /\ \A extra \in ChangedPaths :
          /\ Covers(DecisionFor(Append(files, extra)), analysis)
          /\ Covers(DecisionFor(<<extra>> \o files), analysis)

\* two paths of different categories, the flags of both in the decision
C30_Witness ==
  /\ Classified /\ repo.diffOk
  /\ repo.changedFiles = << <<"composer.json">>, <<"nginx.conf">> >>
  /\ analysis.needsComposerInstall /\ analysis.needsSystemRestart
  /\ ~analysis.needsNpmInstall

====
